---------------------------- MODULE Spec2Model ----------------------------
(***************************************************************************)
(* The editorial translation assistant: the client-side language detector  *)
(* detectLanguage (services/gemini.ts) and the App state that consumes it. *)
(*                                                                         *)
(* A JavaScript string is modelled as the sequence of its UTF-16 code      *)
(* units (naturals), so that the regular expressions of the detector are   *)
(* range tests on code units, exactly as the engine evaluates them.        *)
(***************************************************************************)
EXTENDS Integers, Sequences, FiniteSets, TLC

(***************************************************************************)
(* Bounds of the explored input space.                                     *)
(***************************************************************************)
\* longest text drawn code unit by code unit from Alphabet
MaxChars == 4
\* most words drawn from Vocabulary for a word text
MaxWords == 6
\* most neutral tokens appended to a word text
MaxPad == 1
\* words of the texts that are compared with their rearrangements
MaxShortWords == 3
\* translateContentStream calls running at one time
MaxStreams == 2
\* code units one response stream delivers
MaxChunks == 2
\* items the history store holds
MaxHistory == 2

(***************************************************************************)
(* Values of the Language type (types.ts) and the null/undefined argument. *)
(***************************************************************************)
Language == {"BANGLA", "ENGLISH", "UNKNOWN"}

\* null / undefined: no string, so it is no sequence of code units >= 0
Null == <<-1>>

(***************************************************************************)
(* Code-unit classes used by the engine.                                   *)
(***************************************************************************)
\* WhiteSpace and LineTerminator code units: what String.prototype.trim
\* strips and what \s matches in a regular expression.
WhiteSpace ==
    {9, 10, 11, 12, 13, 32, 160, 5760, 8232, 8233, 8239, 8287, 12288, 65279}
        \cup (8192..8202)

\* /[\u0980-\u09FF]/
IsBanglaChar(c) == c >= 2432 /\ c <= 2559

\* /[a-z]/
IsLowerLatin(c) == c >= 97 /\ c <= 122

\* /[a-zA-Z]/
IsLatin(c) == (c >= 97 /\ c <= 122) \/ (c >= 65 /\ c <= 90)

(***************************************************************************)
(* String primitives.                                                      *)
(***************************************************************************)
\* String.prototype.toLowerCase on one code unit (Unicode default case
\* conversion): A-Z to a-z; the KELVIN SIGN U+212A to k; U+0130 to
\* i followed by U+0307.  Every other code unit the model draws is uncased.
LowerUnit(c) ==
    IF c >= 65 /\ c <= 90 THEN <<c + 32>>
    ELSE IF c = 8490 THEN <<107>>
    ELSE IF c = 304 THEN <<105, 775>>
    ELSE <<c>>

RECURSIVE ToLowerCase(_)
ToLowerCase(s) ==
    IF s = <<>> THEN <<>> ELSE LowerUnit(Head(s)) \o ToLowerCase(Tail(s))

RECURSIVE TrimStart(_)
TrimStart(s) ==
    IF s # <<>> /\ Head(s) \in WhiteSpace THEN TrimStart(Tail(s)) ELSE s

RECURSIVE TrimEnd(_)
TrimEnd(s) ==
    IF s # <<>> /\ s[Len(s)] \in WhiteSpace
    THEN TrimEnd(SubSeq(s, 1, Len(s) - 1))
    ELSE s

\* String.prototype.trim
Trim(s) == TrimEnd(TrimStart(s))

\* s.split(/\s+/): the pieces between maximal runs of white space; a text
\* that starts or ends with white space yields an empty first or last piece.
RECURSIVE SplitFrom(_, _, _)
SplitFrom(s, cur, inSep) ==
    IF s = <<>> THEN <<cur>>
    ELSE IF Head(s) \in WhiteSpace
         THEN IF inSep THEN SplitFrom(Tail(s), cur, TRUE)
              ELSE <<cur>> \o SplitFrom(Tail(s), <<>>, TRUE)
         ELSE SplitFrom(Tail(s), Append(cur, Head(s)), FALSE)

Split(s) == SplitFrom(s, <<>>, FALSE)

\* variant: pieces of one code unit dropped too
NonEmptyLong(w) == Len(w) > 1

\* .filter(w => w.length > 0)
NonEmpty(w) == Len(w) > 0

\* (s.match(/[...]/g) || []).length for the three character classes
CountBangla(s) == Cardinality({i \in 1..Len(s) : IsBanglaChar(s[i])})
CountLowerLatin(s) == Cardinality({i \in 1..Len(s) : IsLowerLatin(s[i])})
CountLatin(s) == Cardinality({i \in 1..Len(s) : IsLatin(s[i])})

\* regex.test(word)
HasBangla(w) == \E i \in 1..Len(w) : IsBanglaChar(w[i])
HasEnglish(w) == \E i \in 1..Len(w) : IsLowerLatin(w[i])

(***************************************************************************)
(* The stopword sets, as code-unit sequences.                              *)
(***************************************************************************)
banglaStopwords ==
    { <<2447, 2476, 2434>>,
      <<2451>>,
      <<2453, 2495, 2472, 2509, 2468, 2497>>,
      <<2479, 2470, 2495>>,
      <<2468, 2476, 2503>>,
      <<2460, 2472, 2509, 2479>>,
      <<2469, 2503, 2453, 2503>>,
      <<2453, 2480, 2494>>,
      <<2489, 2527>>,
      <<2453, 2480, 2503>>,
      <<2459, 2495, 2482>>,
      <<2438, 2459, 2503>>,
      <<2438, 2478, 2495>>,
      <<2468, 2497, 2478, 2495>>,
      <<2488, 2503>>,
      <<2447, 2439>>,
      <<2488, 2503, 2439>>,
      <<2468, 2494, 2480>>,
      <<2453, 2503>> }

\* variant: the Bangla stopword O listed among the English stopwords too
englishStopwordsShared ==
    { <<116, 104, 101>>, <<97, 110, 100>>, <<105, 115>>, <<111, 102>>,
      <<105, 110>>, <<116, 111>>, <<102, 111, 114>>, <<105, 116>>,
      <<111, 110>>, <<119, 105, 116, 104>>, <<97, 115>>, <<97, 116>>,
      <<98, 121>>, <<116, 104, 105, 115>>, <<116, 104, 97, 116>>,
      <<119, 97, 115>>, <<119, 101, 114, 101>>, <<102, 114, 111, 109>>,
      <<97, 110>>, <<98, 101>>, <<2451>> }

englishStopwords ==
    { <<116, 104, 101>>,        \* the
      <<97, 110, 100>>,         \* and
      <<105, 115>>,             \* is
      <<111, 102>>,             \* of
      <<105, 110>>,             \* in
      <<116, 111>>,             \* to
      <<102, 111, 114>>,        \* for
      <<105, 116>>,             \* it
      <<111, 110>>,             \* on
      <<119, 105, 116, 104>>,   \* with
      <<97, 115>>,              \* as
      <<97, 116>>,              \* at
      <<98, 121>>,              \* by
      <<116, 104, 105, 115>>,   \* this
      <<116, 104, 97, 116>>,    \* that
      <<119, 97, 115>>,         \* was
      <<119, 101, 114, 101>>,   \* were
      <<102, 114, 111, 109>>,   \* from
      <<97, 110>>,              \* an
      <<98, 101>> }             \* be

(***************************************************************************)
(* The body of words.forEach: the scores after one more word.  A score     *)
(* pair is a record [banglaScore, englishScore].                           *)
(***************************************************************************)
\* variant: the script bonus counted once per character of the script
AfterScriptPerChar(word, s) ==
    IF HasBangla(word) /\ ~HasEnglish(word)
    THEN [s EXCEPT !.banglaScore = @ + 2 * CountBangla(word)]
    ELSE IF HasEnglish(word) /\ ~HasBangla(word)
    THEN [s EXCEPT !.englishScore = @ + 2 * CountLowerLatin(word)]
    ELSE IF HasBangla(word) /\ HasEnglish(word)
    THEN LET bCount == CountBangla(word)
             eCount == CountLowerLatin(word)
         IN  IF bCount > eCount THEN [s EXCEPT !.banglaScore = @ + 1]
             ELSE IF eCount > bCount THEN [s EXCEPT !.englishScore = @ + 1]
             ELSE s
    ELSE s

\* variant: a mixed word with as many Bangla as Latin characters counts
\* as Bangla
AfterScriptTieBangla(word, s) ==
    IF HasBangla(word) /\ ~HasEnglish(word)
    THEN [s EXCEPT !.banglaScore = @ + 2]
    ELSE IF HasEnglish(word) /\ ~HasBangla(word)
    THEN [s EXCEPT !.englishScore = @ + 2]
    ELSE IF HasBangla(word) /\ HasEnglish(word)
    THEN IF CountBangla(word) >= CountLowerLatin(word)
         THEN [s EXCEPT !.banglaScore = @ + 1]
         ELSE [s EXCEPT !.englishScore = @ + 1]
    ELSE s

\* variant: a stopword bonus of 8, so that a stopword token scores 10 in all
AfterStopwordsEight(word, s) ==
    [banglaScore |->
        IF word \in banglaStopwords THEN s.banglaScore + 8 ELSE s.banglaScore,
     englishScore |->
        IF word \in englishStopwords THEN s.englishScore + 8 ELSE s.englishScore]

\* 1. Stopword check: two independent ifs
AfterStopwords(word, s) ==
    [banglaScore |->
        IF word \in banglaStopwords THEN s.banglaScore + 10 ELSE s.banglaScore,
     englishScore |->
        IF word \in englishStopwords THEN s.englishScore + 10 ELSE s.englishScore]

\* variant: a token with as many Bangla as English characters goes to the
\* score that leads so far
AfterScriptLeader(word, s) ==
    IF HasBangla(word) /\ ~HasEnglish(word)
    THEN [s EXCEPT !.banglaScore = @ + 2]
    ELSE IF HasEnglish(word) /\ ~HasBangla(word)
    THEN [s EXCEPT !.englishScore = @ + 2]
    ELSE IF HasBangla(word) /\ HasEnglish(word)
    THEN LET bCount == CountBangla(word)
             eCount == CountLowerLatin(word)
         IN  IF bCount > eCount THEN [s EXCEPT !.banglaScore = @ + 1]
             ELSE IF eCount > bCount THEN [s EXCEPT !.englishScore = @ + 1]
             ELSE IF s.banglaScore > s.englishScore
             THEN [s EXCEPT !.banglaScore = @ + 1]
             ELSE IF s.englishScore > s.banglaScore
             THEN [s EXCEPT !.englishScore = @ + 1]
             ELSE s
    ELSE s

\* 2. Word-level script analysis: if / else if / else if
AfterScript(word, s) ==
    IF HasBangla(word) /\ ~HasEnglish(word)
    THEN [s EXCEPT !.banglaScore = @ + 2]
    ELSE IF HasEnglish(word) /\ ~HasBangla(word)
    THEN [s EXCEPT !.englishScore = @ + 2]
    ELSE IF HasBangla(word) /\ HasEnglish(word)
    THEN LET bCount == CountBangla(word)
             eCount == CountLowerLatin(word)
         IN  IF bCount > eCount THEN [s EXCEPT !.banglaScore = @ + 1]
             ELSE IF eCount > bCount THEN [s EXCEPT !.englishScore = @ + 1]
             ELSE s
    ELSE s

\* variant: a stopword earns the stopword bonus instead of the script bonus
ScoreWordExclusive(word, s) ==
    IF word \in banglaStopwords \/ word \in englishStopwords
    THEN AfterStopwords(word, s)
    ELSE AfterScript(word, AfterStopwords(word, s))

ScoreWord(word, s) == AfterScript(word, AfterStopwords(word, s))

(***************************************************************************)
(* The decision after the loop.                                            *)
(***************************************************************************)
\* variant: a fourth value when both scripts are equally present
TieFallbackMixed(t) ==
    LET banglaChars == CountBangla(t)
        englishChars == CountLatin(t)
    IN  IF banglaChars > englishChars THEN "BANGLA"
        ELSE IF englishChars > banglaChars THEN "ENGLISH"
        ELSE IF banglaChars > 0 THEN "MIXED"
        ELSE "UNKNOWN"

\* variant: the Latin letters counted with /[a-z]/ on the original text
TieFallbackLowerOnly(t) ==
    LET banglaChars == CountBangla(t)
        englishChars == CountLowerLatin(t)
    IN  IF banglaChars > englishChars THEN "BANGLA"
        ELSE IF englishChars > banglaChars THEN "ENGLISH"
        ELSE "UNKNOWN"

\* 3. Fallback to raw character density when the scores are tied
TieFallback(t) ==
    LET banglaChars == CountBangla(t)
        englishChars == CountLatin(t)
    IN  IF banglaChars > englishChars THEN "BANGLA"
        ELSE IF englishChars > banglaChars THEN "ENGLISH"
        ELSE "UNKNOWN"

\* variant: the bare score as divisor
OrOneUnguarded(x) == x

\* x || 1 on a number
OrOne(x) == IF x = 0 THEN 1 ELSE x

\* The quotient of two scores, kept exact as <<numerator, denominator>>.
\* IEEE-754 division is correctly rounded, hence monotone, and the literal
\* 1.2 is the double nearest 6/5; for scores below 2^31 no quotient other
\* than 6/5 itself rounds to that double, so comparing the exact quotient
\* with 6/5 decides ratio < 1.2 as the engine does.
Ratio(banglaS, englishS) ==
    IF banglaS > englishS
    THEN <<banglaS, OrOne(englishS)>>
    ELSE <<englishS, OrOne(banglaS)>>

\* the literal 1.2
DominanceThreshold == <<6, 5>>

\* variant: <= in place of <
QuotientLessEq(a, b) == a[2] # 0 /\ a[1] * b[2] <= b[1] * a[2]

\* a < b on quotients; a zero denominator is Infinity (never below)
QuotientLess(a, b) == a[2] # 0 /\ a[1] * b[2] < b[1] * a[2]

\* variant: the close-score fallback made the same as the tie fallback
CloseFallbackUnknown(t) ==
    LET banglaChars == CountBangla(t)
        englishChars == CountLatin(t)
    IN  IF banglaChars > englishChars THEN "BANGLA"
        ELSE IF englishChars > banglaChars THEN "ENGLISH"
        ELSE "UNKNOWN"

\* close scores in a long text: character count as tie-breaker
CloseFallback(t) ==
    LET banglaChars == CountBangla(t)
        englishChars == CountLatin(t)
    IN  IF banglaChars > englishChars THEN "BANGLA" ELSE "ENGLISH"

ByScore(banglaS, englishS) ==
    IF banglaS > englishS THEN "BANGLA" ELSE "ENGLISH"

\* variant: the length taken without trimming
TrivialNoTrim(t) == t = Null \/ t = <<>> \/ Len(t) < 2

\* variant: trimEnd in place of trim
TrivialTrimEnd(t) == t = Null \/ t = <<>> \/ Len(TrimEnd(t)) < 2

\* line 13: !text || text.trim().length < 2
Trivial(t) == t = Null \/ t = <<>> \/ Len(Trim(t)) < 2

\* variant: the tokens taken from the text as written, not lower-cased
TokenizeAsWritten(t) == SelectSeq(Split(t), NonEmpty)

\* lines 15-16: lower-case, split on white space, drop empty pieces
Tokenize(t) == SelectSeq(Split(ToLowerCase(t)), NonEmpty)

\* variant: the larger score decides whenever the scores differ
VerdictByScoreOnly(t, nWords, banglaS, englishS) ==
    IF banglaS = englishS THEN TieFallback(t)
    ELSE ByScore(banglaS, englishS)

\* lines 57-78: the value returned once every word is scored
Verdict(t, nWords, banglaS, englishS) ==
    IF banglaS = englishS THEN TieFallback(t)
    ELSE IF QuotientLess(Ratio(banglaS, englishS), DominanceThreshold) /\ nWords > 5
    THEN CloseFallback(t)
    ELSE ByScore(banglaS, englishS)

\* lines 30-54: words.forEach folded over the tokens
RECURSIVE ScoreAll(_, _)
ScoreAll(ws, s) ==
    IF ws = <<>> THEN s ELSE ScoreAll(Tail(ws), ScoreWord(Head(ws), s))

\* the scores of a text when the loop ends
Scores(t) == ScoreAll(Tokenize(t), [banglaScore |-> 0, englishScore |-> 0])

\* lines 12-79: one whole call
detectLanguage(t) ==
    IF Trivial(t) \/ Len(Tokenize(t)) = 0 THEN "UNKNOWN"
    ELSE Verdict(t, Len(Tokenize(t)), Scores(t).banglaScore, Scores(t).englishScore)

\* getSystemInstruction, line 89: the language translated into
targetLang(sourceLang) == IF sourceLang = "BANGLA" THEN "ENGLISH" ELSE "BANGLA"

(***************************************************************************)
(* The texts the detector is run on.                                       *)
(***************************************************************************)
\* code units texts are drawn from: space, a, n, A, 1, BENGALI LETTER KA,
\* VOWEL SIGN E, LETTER O, and the KELVIN SIGN
Alphabet == {32, 97, 110, 65, 49, 2453, 2503, 2451, 8490}

SeqsUpTo(S, n) == UNION {[1..k -> S] : k \in 0..n}

CharTexts == SeqsUpTo(Alphabet, MaxChars)

\* an, a; O (stopword), KA, THEKE (stopword)
Vocabulary ==
    { <<97, 110>>, <<97>>, <<2451>>, <<2453>>, <<2469, 2503, 2453, 2503>> }

\* a token with neither script
PadWord == <<49>>

RECURSIVE Join(_)
Join(ws) ==
    IF ws = <<>> THEN <<>>
    ELSE IF Len(ws) = 1 THEN ws[1]
    ELSE ws[1] \o <<32>> \o Join(Tail(ws))

\* the words ws, then k neutral tokens, single spaces between them
WordText(ws, k) == Join(ws \o [i \in 1..k |-> PadWord])

\* longer texts: three Bangla stopwords, five English stopwords, digits and
\* punctuation, one Bangla word, one English word
ExampleTexts ==
    { <<2447, 2476, 2434, 32, 2451, 32, 2453, 2495, 2472, 2509, 2468, 2497>>,
      <<116, 104, 101, 32, 97, 110, 100, 32, 105, 115, 32, 111, 102, 32, 105, 110>>,
      <<49, 50, 51, 52, 53, 32, 33, 33, 33>>,
      <<2476, 2494, 2434, 2482, 2494, 2470, 2503, 2486>>,
      <<106, 111, 117, 114, 110, 97, 108, 105, 115, 109>> }

\* texts typed into the input panel: empty, "kk" in Bangla letters, "an an",
\* "a", "A k" with a Bangla k, "12"
AppTexts ==
    { <<>>, <<2453, 2453>>, <<97, 110, 32, 97, 110>>, <<97>>,
      <<65, 32, 2453>>, <<49, 50>> }

TranslationFormat == {"PARAGRAPH_BY_PARAGRAPH", "FULL_TRANSLATION"}

ModelTier == {"FAST", "DEEP_EDITORIAL"}

TranslationStatus == {"IDLE", "LOADING", "STREAMING", "SUCCESS", "ERROR"}

\* localStorage.getItem(HISTORY_STORAGE_KEY) returning null
NoLegacyHistory == [stored |-> FALSE, items |-> <<>>]

\* HistoryModal as first rendered: no items, both filters ALL, no query
ClosedModal ==
    [history |-> <<>>, formatFilter |-> "ALL", dateFilter |-> "ALL",
     searchQuery |-> <<>>, now |-> 0, filteredHistory |-> <<>>]

(***************************************************************************)
(* State: one run of detectLanguage, and the App state around it.          *)
(***************************************************************************)
VARIABLES
    text,           \* the argument of the running call
    pc,             \* "idle", "call", "loop" (inside words.forEach), "done"
    words,          \* the tokens
    idx,            \* words scored so far
    banglaScore,
    englishScore,
    ratio,          \* <<>> until computed
    result,         \* the value returned
    inputText,      \* App state
    detectedLang,   \* useMemo(() => detectLanguage(inputText), [inputText])
    format,
    modelTier,
    storage,        \* localStorage: the draft input and the format
    seen,           \* <<text, result>> of every call that has returned
    status,         \* TranslationStatus
    outputText,
    history,        \* the history state of App
    store,          \* the items held by services/db
    loadHistory,    \* "pending" until the mount effect has ended
    streams,        \* the translateContentStream calls still running
    requests,       \* the generateContentStream calls made so far
    loadingMessageIndex,
    legacyHistory,  \* localStorage under HISTORY_STORAGE_KEY
    legacyIndex,    \* the legacy items the mount effect has saved so far
    modal           \* HistoryModal: its history prop, its filters, its list

detVars == <<text, pc, words, idx, banglaScore, englishScore, ratio, result>>

uiVars == <<status, outputText, history, store, loadHistory, streams, requests,
            loadingMessageIndex, legacyHistory, legacyIndex, modal>>

appVars == <<inputText, detectedLang, format, modelTier, storage, seen,
             status, outputText, history, store, loadHistory, streams, requests,
             loadingMessageIndex, legacyHistory, legacyIndex, modal>>

vars == <<text, pc, words, idx, banglaScore, englishScore, ratio, result,
          inputText, detectedLang, format, modelTier, storage, seen,
          status, outputText, history, store, loadHistory, streams, requests,
          loadingMessageIndex, legacyHistory, legacyIndex, modal>>

\* the detector run on one input; the App stays as constructed
Init ==
    /\ \/ text = Null
       \/ text \in CharTexts
       \/ text \in ExampleTexts
       \/ \E ws \in SeqsUpTo(Vocabulary, MaxWords), k \in 0..MaxPad :
             text = WordText(ws, k)
    /\ pc = "call"
    /\ words = <<>>
    /\ idx = 0
    /\ banglaScore = 0
    /\ englishScore = 0
    /\ ratio = <<>>
    /\ result = "none"
    /\ inputText = <<>>
    /\ detectedLang = "none"
    /\ format = "FULL_TRANSLATION"
    /\ modelTier = "FAST"
    /\ storage = [input |-> <<>>, format |-> "FULL_TRANSLATION"]
    /\ seen = {}
    /\ status = "IDLE"
    /\ outputText = <<>>
    /\ history = {}
    /\ store = {}
    /\ loadHistory = "pending"
    /\ streams = <<>>
    /\ requests = {}
    /\ loadingMessageIndex = 0
    /\ legacyHistory = NoLegacyHistory
    /\ legacyIndex = 0
    /\ modal = ClosedModal

\* variant: the scores kept in module scope and never set back to 0
EnterKeepScores ==
    /\ pc = "call"
    /\ IF Trivial(text) \/ Len(Tokenize(text)) = 0
       THEN /\ result' = "UNKNOWN"
            /\ pc' = "done"
            /\ UNCHANGED <<words, idx>>
       ELSE /\ words' = Tokenize(text)
            /\ idx' = 0
            /\ pc' = "loop"
            /\ UNCHANGED result
    /\ ratio' = <<>>
    /\ UNCHANGED <<text, banglaScore, englishScore>>
    /\ UNCHANGED appVars

\* variant: a call that empties the output panel as it starts
EnterClearsOutput ==
    /\ pc = "call"
    /\ IF Trivial(text) \/ Len(Tokenize(text)) = 0
       THEN /\ result' = "UNKNOWN"
            /\ pc' = "done"
            /\ UNCHANGED <<words, idx, banglaScore, englishScore>>
       ELSE /\ words' = Tokenize(text)
            /\ idx' = 0
            /\ banglaScore' = 0
            /\ englishScore' = 0
            /\ pc' = "loop"
            /\ UNCHANGED result
    /\ ratio' = <<>>
    /\ outputText' = <<>>
    /\ UNCHANGED text
    /\ UNCHANGED <<inputText, detectedLang, format, modelTier, storage, seen>>
    /\ UNCHANGED <<status, history, store, loadHistory, streams, requests>>
    /\ UNCHANGED <<loadingMessageIndex, legacyHistory, legacyIndex, modal>>

\* lines 13-21: the two early returns, tokenization, the scores set to 0
Enter ==
    /\ pc = "call"
    /\ IF Trivial(text) \/ Len(Tokenize(text)) = 0
       THEN /\ result' = "UNKNOWN"
            /\ pc' = "done"
            /\ UNCHANGED <<words, idx, banglaScore, englishScore>>
       ELSE /\ words' = Tokenize(text)
            /\ idx' = 0
            /\ banglaScore' = 0
            /\ englishScore' = 0
            /\ pc' = "loop"
            /\ UNCHANGED result
    /\ ratio' = <<>>
    /\ UNCHANGED text
    /\ UNCHANGED appVars

\* lines 30-54: one iteration of words.forEach
ForEachWord ==
    /\ pc = "loop"
    /\ idx < Len(words)
    /\ LET s == ScoreWord(words[idx + 1],
                          [banglaScore |-> banglaScore, englishScore |-> englishScore])
       IN  /\ banglaScore' = s.banglaScore
           /\ englishScore' = s.englishScore
    /\ idx' = idx + 1
    /\ UNCHANGED <<text, pc, words, ratio, result>>
    /\ UNCHANGED appVars

\* lines 56-78: the decision
Decide ==
    /\ pc = "loop"
    /\ idx = Len(words)
    /\ ratio' = IF banglaScore = englishScore THEN ratio
                ELSE Ratio(banglaScore, englishScore)
    /\ result' = Verdict(text, Len(words), banglaScore, englishScore)
    /\ pc' = "done"
    /\ UNCHANGED <<text, words, idx, banglaScore, englishScore>>
    /\ UNCHANGED appVars

Next == Enter \/ ForEachWord \/ Decide

Spec == Init /\ [][Next]_vars

\* the detector run on one short text, for comparing calls on related texts
InitShort ==
    /\ \/ text \in CharTexts
       \/ text \in ExampleTexts
       \/ \E ws \in SeqsUpTo(Vocabulary, MaxShortWords) : text = WordText(ws, 0)
    /\ pc = "call"
    /\ words = <<>>
    /\ idx = 0
    /\ banglaScore = 0
    /\ englishScore = 0
    /\ ratio = <<>>
    /\ result = "none"
    /\ inputText = <<>>
    /\ detectedLang = "none"
    /\ format = "FULL_TRANSLATION"
    /\ modelTier = "FAST"
    /\ storage = [input |-> <<>>, format |-> "FULL_TRANSLATION"]
    /\ seen = {}
    /\ status = "IDLE"
    /\ outputText = <<>>
    /\ history = {}
    /\ store = {}
    /\ loadHistory = "pending"
    /\ streams = <<>>
    /\ requests = {}
    /\ loadingMessageIndex = 0
    /\ legacyHistory = NoLegacyHistory
    /\ legacyIndex = 0
    /\ modal = ClosedModal

SpecShort == InitShort /\ [][Next]_vars

(***************************************************************************)
(* The App around the detector: the input panel and two settings.  A       *)
(* handler runs to completion; the render that follows a change of         *)
(* inputText calls detectLanguage through useMemo.                         *)
(***************************************************************************)
\* first render: the draft restored from localStorage, detection pending
InitApp ==
    /\ inputText \in AppTexts
    /\ format \in TranslationFormat
    /\ storage = [input |-> inputText, format |-> format]
    /\ modelTier = "FAST"
    /\ detectedLang = "none"
    /\ seen = {}
    /\ text = inputText
    /\ pc = "call"
    /\ words = <<>>
    /\ idx = 0
    /\ banglaScore = 0
    /\ englishScore = 0
    /\ ratio = <<>>
    /\ result = "none"
    /\ status = "IDLE"
    /\ outputText = <<>>
    /\ history = {}
    /\ store = {}
    /\ loadHistory = "pending"
    /\ streams = <<>>
    /\ requests = {}
    /\ loadingMessageIndex = 0
    /\ legacyHistory = NoLegacyHistory
    /\ legacyIndex = 0
    /\ modal = ClosedModal

\* the call returns to useMemo
MemoReturn ==
    /\ pc = "done"
    /\ detectedLang' = result
    /\ seen' = seen \cup {<<text, result>>}
    /\ pc' = "idle"
    /\ UNCHANGED <<text, words, idx, banglaScore, englishScore, ratio, result>>
    /\ UNCHANGED <<inputText, format, modelTier, storage>>
    /\ UNCHANGED uiVars

\* textarea onChange: setInputText, the draft saved (a failed write is
\* ignored), and the memo recomputed for the new text
ChangeInput(t) ==
    /\ pc = "idle"
    /\ t # inputText
    /\ inputText' = t
    /\ \E saved \in BOOLEAN :
          storage' = IF saved THEN [storage EXCEPT !.input = t] ELSE storage
    /\ text' = t
    /\ pc' = "call"
    /\ UNCHANGED <<words, idx, banglaScore, englishScore, ratio, result>>
    /\ UNCHANGED <<detectedLang, format, modelTier, seen>>
    /\ UNCHANGED uiVars

\* the format buttons: setFormat, and the format saved
SetFormat(f) ==
    /\ pc = "idle"
    /\ format' = f
    /\ \E saved \in BOOLEAN :
          storage' = IF saved /\ f # format
                     THEN [storage EXCEPT !.format = f] ELSE storage
    /\ UNCHANGED detVars
    /\ UNCHANGED <<inputText, detectedLang, modelTier, seen>>
    /\ UNCHANGED uiVars

\* the model tier buttons
SetModelTier(m) ==
    /\ pc = "idle"
    /\ modelTier' = m
    /\ UNCHANGED detVars
    /\ UNCHANGED <<inputText, detectedLang, format, storage, seen>>
    /\ UNCHANGED uiVars

NextApp ==
    \/ Enter
    \/ ForEachWord
    \/ Decide
    \/ MemoReturn
    \/ \E t \in AppTexts : ChangeInput(t)
    \/ \E f \in TranslationFormat : SetFormat(f)
    \/ \E m \in ModelTier : SetModelTier(m)

SpecApp == InitApp /\ [][NextApp]_vars

(***************************************************************************)
(* The translation workflow: the translate and retry buttons, the response *)
(* stream, clear, and the history.                                         *)
(***************************************************************************)
\* texts typed in this workflow: empty, "an an", "12"
UITexts == { <<>>, <<97, 110, 32, 97, 110>>, <<49, 50>> }

\* s without its i-th element
Remove(s, i) == SubSeq(s, 1, i - 1) \o SubSeq(s, i + 1, Len(s))

\* chunk.text of one piece of the response: "x" or a space
Chunks == { <<120>>, <<32>> }

\* an item saved by an earlier session; its source is "12"
SavedItem ==
    [sourceText |-> <<49, 50>>, translatedText |-> <<120>>,
     format |-> "PARAGRAPH_BY_PARAGRAPH"]

\* first render of a session: the draft restored, the history not yet loaded
InitUI ==
    /\ inputText \in UITexts
    /\ format = "FULL_TRANSLATION"
    /\ storage = [input |-> inputText, format |-> format]
    /\ modelTier = "FAST"
    /\ detectedLang = "none"
    /\ seen = {}
    /\ text = inputText
    /\ pc = "call"
    /\ words = <<>>
    /\ idx = 0
    /\ banglaScore = 0
    /\ englishScore = 0
    /\ ratio = <<>>
    /\ result = "none"
    /\ status = "IDLE"
    /\ outputText = <<>>
    /\ history = {}
    /\ store \in {{}, {SavedItem}}
    /\ loadHistory = "pending"
    /\ streams = <<>>
    /\ requests = {}
    /\ loadingMessageIndex = 0
    /\ legacyHistory = NoLegacyHistory
    /\ legacyIndex = 0
    /\ modal = ClosedModal

\* the mount effect: getAllHistory, then setHistory; a failure is logged
LoadHistory ==
    /\ pc = "idle"
    /\ loadHistory = "pending"
    /\ legacyHistory = NoLegacyHistory
    /\ loadHistory' = "done"
    /\ \E ok \in BOOLEAN : history' = IF ok THEN store ELSE history
    /\ UNCHANGED detVars
    /\ UNCHANGED <<inputText, detectedLang, format, modelTier, storage, seen>>
    /\ UNCHANGED <<status, outputText, store, streams, requests>>
    /\ UNCHANGED <<loadingMessageIndex, legacyHistory, legacyIndex, modal>>

\* handleTranslate up to its await: the state set for a new run, then
\* translateContentStream detecting the source language and calling
\* generateContentStream with the system instruction for that direction
handleTranslate ==
    /\ pc = "idle"
    /\ Trim(inputText) # <<>>
    /\ Len(streams) < MaxStreams
    /\ Cardinality(store) + Len(streams) < MaxHistory
    /\ status' = "STREAMING"
    /\ outputText' = <<>>
    /\ LET sourceLang == detectLanguage(inputText)
       IN  /\ requests' = requests \cup
                              {[inputText |-> inputText,
                                sourceLang |-> sourceLang,
                                targetLang |-> targetLang(sourceLang)]}
           /\ seen' = seen \cup {<<inputText, sourceLang>>}
    /\ streams' = Append(streams, [inputText |-> inputText,
                                   format |-> format,
                                   currentOutput |-> <<>>])
    /\ UNCHANGED detVars
    /\ UNCHANGED <<inputText, detectedLang, format, modelTier, storage>>
    /\ UNCHANGED <<history, store, loadHistory>>
    /\ loadingMessageIndex' = 0
    /\ UNCHANGED <<legacyHistory, legacyIndex, modal>>

\* the Run Transcreation button, enabled as its disabled attribute says
ClickTranslate ==
    /\ status \notin {"LOADING", "STREAMING"}
    /\ detectedLang # "UNKNOWN"
    /\ handleTranslate

\* the Retry Translation button, rendered while the status is ERROR
ClickRetry ==
    /\ status = "ERROR"
    /\ handleTranslate

\* one chunk of a response: the onChunk callback of its handleTranslate
OnChunk(i, chunk) ==
    /\ pc = "idle"
    /\ Len(streams[i].currentOutput) < MaxChunks
    /\ LET currentOutput == streams[i].currentOutput \o chunk
       IN  /\ streams' = [streams EXCEPT ![i].currentOutput = currentOutput]
           /\ outputText' = currentOutput
    /\ UNCHANGED detVars
    /\ UNCHANGED <<inputText, detectedLang, format, modelTier, storage, seen>>
    /\ UNCHANGED <<status, history, store, loadHistory, requests>>
    /\ UNCHANGED <<loadingMessageIndex, legacyHistory, legacyIndex, modal>>

\* variant: the item built from the input text and format shown at the end
StreamEndCurrentInput(i) ==
    /\ pc = "idle"
    /\ streams' = Remove(streams, i)
    /\ status' = "SUCCESS"
    /\ LET source == inputText
           newItem == [sourceText |-> source,
                       translatedText |-> streams[i].currentOutput,
                       format |-> format]
       IN  IF Trim(source) = <<>> \/ Trim(streams[i].currentOutput) = <<>>
           THEN UNCHANGED <<history, store>>
           ELSE \E saved, loaded \in BOOLEAN :
                   /\ store' = IF saved THEN store \cup {newItem} ELSE store
                   /\ history' = IF saved /\ loaded THEN store' ELSE history
    /\ UNCHANGED detVars
    /\ UNCHANGED <<inputText, detectedLang, format, modelTier, storage, seen>>
    /\ UNCHANGED <<outputText, loadHistory, requests>>
    /\ UNCHANGED <<loadingMessageIndex, legacyHistory, legacyIndex, modal>>

\* the response ends: setStatus(SUCCESS), then addToHistory with the text
\* and format the run was started with; a failed save or reload is logged
StreamEnd(i) ==
    /\ pc = "idle"
    /\ streams' = Remove(streams, i)
    /\ status' = "SUCCESS"
    /\ LET source == streams[i].inputText
           newItem == [sourceText |-> source,
                       translatedText |-> streams[i].currentOutput,
                       format |-> streams[i].format]
       IN  IF Trim(source) = <<>> \/ Trim(streams[i].currentOutput) = <<>>
           THEN UNCHANGED <<history, store>>
           ELSE \E saved, loaded \in BOOLEAN :
                   /\ store' = IF saved THEN store \cup {newItem} ELSE store
                   /\ history' = IF saved /\ loaded THEN store' ELSE history
    /\ UNCHANGED detVars
    /\ UNCHANGED <<inputText, detectedLang, format, modelTier, storage, seen>>
    /\ UNCHANGED <<outputText, loadHistory, requests>>
    /\ UNCHANGED <<loadingMessageIndex, legacyHistory, legacyIndex, modal>>

\* variant: a failed run saved to the history with what had arrived
StreamFailSaves(i) ==
    /\ pc = "idle"
    /\ streams' = Remove(streams, i)
    /\ status' = "ERROR"
    /\ LET newItem == [sourceText |-> streams[i].inputText,
                       translatedText |-> streams[i].currentOutput,
                       format |-> streams[i].format]
       IN  /\ store' = store \cup {newItem}
           /\ history' = store'
    /\ UNCHANGED detVars
    /\ UNCHANGED <<inputText, detectedLang, format, modelTier, storage, seen>>
    /\ UNCHANGED <<outputText, loadHistory, requests>>
    /\ UNCHANGED <<loadingMessageIndex, legacyHistory, legacyIndex, modal>>

\* the call or the stream throws: setStatus(ERROR)
StreamFail(i) ==
    /\ pc = "idle"
    /\ streams' = Remove(streams, i)
    /\ status' = "ERROR"
    /\ UNCHANGED detVars
    /\ UNCHANGED <<inputText, detectedLang, format, modelTier, storage, seen>>
    /\ UNCHANGED <<outputText, history, store, loadHistory, requests>>
    /\ UNCHANGED <<loadingMessageIndex, legacyHistory, legacyIndex, modal>>

\* the Clear All button, rendered while the input is not empty
handleClear ==
    /\ pc = "idle"
    /\ inputText # <<>>
    /\ inputText' = <<>>
    /\ outputText' = <<>>
    /\ status' = "IDLE"
    /\ \E saved \in BOOLEAN :
          storage' = IF saved THEN [storage EXCEPT !.input = <<>>] ELSE storage
    /\ text' = <<>>
    /\ pc' = "call"
    /\ UNCHANGED <<words, idx, banglaScore, englishScore, ratio, result>>
    /\ UNCHANGED <<detectedLang, format, modelTier, seen>>
    /\ UNCHANGED <<history, store, loadHistory, streams, requests>>
    /\ UNCHANGED <<loadingMessageIndex, legacyHistory, legacyIndex, modal>>

\* an item picked in the history modal; the memo is recomputed when the
\* input text changes
handleSelectHistory(item) ==
    /\ pc = "idle"
    /\ item \in history
    /\ inputText' = item.sourceText
    /\ outputText' = item.translatedText
    /\ format' = item.format
    /\ status' = "SUCCESS"
    /\ \E saved \in BOOLEAN :
          storage' = IF saved
                     THEN [input |-> item.sourceText, format |-> item.format]
                     ELSE storage
    /\ IF item.sourceText # inputText
       THEN /\ text' = item.sourceText
            /\ pc' = "call"
       ELSE UNCHANGED <<text, pc>>
    /\ UNCHANGED <<words, idx, banglaScore, englishScore, ratio, result>>
    /\ UNCHANGED <<detectedLang, modelTier, seen>>
    /\ UNCHANGED <<history, store, loadHistory, streams, requests>>
    /\ UNCHANGED <<loadingMessageIndex, legacyHistory, legacyIndex, modal>>

NextUI ==
    \/ Enter
    \/ ForEachWord
    \/ Decide
    \/ MemoReturn
    \/ \E t \in UITexts : ChangeInput(t)
    \/ LoadHistory
    \/ ClickTranslate
    \/ ClickRetry
    \/ \E i \in 1..Len(streams), chunk \in Chunks : OnChunk(i, chunk)
    \/ \E i \in 1..Len(streams) : StreamEnd(i)
    \/ \E i \in 1..Len(streams) : StreamFail(i)
    \/ handleClear
    \/ \E item \in history : handleSelectHistory(item)

SpecUI == InitUI /\ [][NextUI]_vars

(***************************************************************************)
(* The loading messages shown while a translation streams.                 *)
(***************************************************************************)
\* DEEP_MESSAGES.length and FAST_MESSAGES.length
DeepMessagesLength == 7
FastMessagesLength == 3

\* the interval callback of the message cycler; the effect sets the interval
\* while the status is STREAMING and sets it anew when the tier changes
CycleMessage ==
    /\ pc = "idle"
    /\ status = "STREAMING"
    /\ loadingMessageIndex' =
          (loadingMessageIndex + 1) %
             (IF modelTier = "DEEP_EDITORIAL" THEN DeepMessagesLength
              ELSE FastMessagesLength)
    /\ UNCHANGED detVars
    /\ UNCHANGED <<inputText, detectedLang, format, modelTier, storage, seen>>
    /\ UNCHANGED <<status, outputText, history, store, loadHistory>>
    /\ UNCHANGED <<streams, requests, legacyHistory, legacyIndex, modal>>

\* one session of translating and watching the messages
NextCycler ==
    \/ Enter
    \/ ForEachWord
    \/ Decide
    \/ MemoReturn
    \/ \E m \in ModelTier : SetModelTier(m)
    \/ ClickTranslate
    \/ CycleMessage
    \/ \E i \in 1..Len(streams), chunk \in Chunks : OnChunk(i, chunk)
    \/ \E i \in 1..Len(streams) : StreamEnd(i)
    \/ \E i \in 1..Len(streams) : StreamFail(i)

SpecCycler == InitUI /\ [][NextCycler]_vars

(***************************************************************************)
(* The mount effect with a legacy history in localStorage.                 *)
(***************************************************************************)
MaxLegacy == 2

LegacyItem == [sourceText |-> <<97, 110, 32, 97, 110>>,
               translatedText |-> <<120>>,
               format |-> "FULL_TRANSLATION"]

\* JSON.parse(legacyHistoryStr): the lists an earlier version stored
LegacyLists ==
    UNION { [1..n -> {SavedItem, LegacyItem}] : n \in 0..MaxLegacy }

InitStartup ==
    /\ inputText \in UITexts
    /\ format = "FULL_TRANSLATION"
    /\ storage = [input |-> inputText, format |-> format]
    /\ modelTier = "FAST"
    /\ detectedLang = "none"
    /\ seen = {}
    /\ text = inputText
    /\ pc = "call"
    /\ words = <<>>
    /\ idx = 0
    /\ banglaScore = 0
    /\ englishScore = 0
    /\ ratio = <<>>
    /\ result = "none"
    /\ status = "IDLE"
    /\ outputText = <<>>
    /\ history = {}
    /\ store \in {{}, {SavedItem}}
    /\ loadHistory = "pending"
    /\ streams = <<>>
    /\ requests = {}
    /\ loadingMessageIndex = 0
    /\ legacyHistory \in
          {NoLegacyHistory} \cup
          { [stored |-> TRUE, items |-> l] : l \in LegacyLists }
    /\ legacyIndex = 0
    /\ modal = ClosedModal

SaveLegacyItemKeyFirst ==
    /\ pc = "idle"
    /\ loadHistory = "saving"
    /\ legacyIndex' = legacyIndex + 1
    /\ store' = store \cup {legacyHistory.items[legacyIndex + 1]}
    /\ legacyHistory' = NoLegacyHistory
    /\ loadHistory' =
          IF legacyIndex + 1 = Len(legacyHistory.items) THEN "reading"
          ELSE "saving"
    /\ UNCHANGED detVars
    /\ UNCHANGED <<inputText, detectedLang, format, modelTier, storage, seen>>
    /\ UNCHANGED <<status, outputText, history, streams, requests>>
    /\ UNCHANGED <<loadingMessageIndex, modal>>

\* the mount effect up to its first await when the legacy key holds a list:
\* the first saveHistoryItem is called, or, the list being empty, the key
\* is removed and getAllHistory is called
BeginMigration ==
    /\ pc = "idle"
    /\ loadHistory = "pending"
    /\ legacyHistory.stored
    /\ IF legacyHistory.items = <<>>
       THEN /\ legacyHistory' = NoLegacyHistory
            /\ loadHistory' = "reading"
       ELSE /\ legacyHistory' = legacyHistory
            /\ loadHistory' = "saving"
    /\ UNCHANGED detVars
    /\ UNCHANGED <<inputText, detectedLang, format, modelTier, storage, seen>>
    /\ UNCHANGED <<status, outputText, history, store, streams, requests>>
    /\ UNCHANGED <<loadingMessageIndex, legacyIndex, modal>>

\* await saveHistoryItem(item) resolving: the loop goes on to the next item
\* or, after the last one, removes the key and calls getAllHistory
SaveLegacyItem ==
    /\ pc = "idle"
    /\ loadHistory = "saving"
    /\ legacyIndex' = legacyIndex + 1
    /\ store' = store \cup {legacyHistory.items[legacyIndex + 1]}
    /\ IF legacyIndex + 1 = Len(legacyHistory.items)
       THEN /\ legacyHistory' = NoLegacyHistory
            /\ loadHistory' = "reading"
       ELSE /\ legacyHistory' = legacyHistory
            /\ loadHistory' = "saving"
    /\ UNCHANGED detVars
    /\ UNCHANGED <<inputText, detectedLang, format, modelTier, storage, seen>>
    /\ UNCHANGED <<status, outputText, history, streams, requests>>
    /\ UNCHANGED <<loadingMessageIndex, modal>>

\* await saveHistoryItem(item) rejecting: the catch block logs and the
\* effect ends
SaveLegacyItemFails ==
    /\ pc = "idle"
    /\ loadHistory = "saving"
    /\ loadHistory' = "failed"
    /\ UNCHANGED detVars
    /\ UNCHANGED <<inputText, detectedLang, format, modelTier, storage, seen>>
    /\ UNCHANGED <<status, outputText, history, store, streams, requests>>
    /\ UNCHANGED <<loadingMessageIndex, legacyHistory, legacyIndex, modal>>

\* await getAllHistory() after the migration: setHistory, or the catch block
ReadHistory ==
    /\ pc = "idle"
    /\ loadHistory = "reading"
    /\ loadHistory' = "done"
    /\ \E ok \in BOOLEAN : history' = IF ok THEN store ELSE history
    /\ UNCHANGED detVars
    /\ UNCHANGED <<inputText, detectedLang, format, modelTier, storage, seen>>
    /\ UNCHANGED <<status, outputText, store, streams, requests>>
    /\ UNCHANGED <<loadingMessageIndex, legacyHistory, legacyIndex, modal>>

\* startup, with translations run while the effect is still at work
NextStartup ==
    \/ Enter
    \/ ForEachWord
    \/ Decide
    \/ MemoReturn
    \/ LoadHistory
    \/ BeginMigration
    \/ SaveLegacyItem
    \/ SaveLegacyItemFails
    \/ ReadHistory
    \/ ClickTranslate
    \/ \E i \in 1..Len(streams), chunk \in Chunks : OnChunk(i, chunk)
    \/ \E i \in 1..Len(streams) : StreamEnd(i)
    \/ \E i \in 1..Len(streams) : StreamFail(i)

SpecStartup == InitStartup /\ [][NextStartup]_vars

(***************************************************************************)
(* HistoryModal: the list it shows.  The component is rendered by App at   *)
(* all times, so its filters and its memoized list outlive its closing.    *)
(***************************************************************************)
MaxItems == 2
MaxStampSteps == 3
MaxClockSteps == 17

\* 24 * 60 * 60 * 1000 milliseconds
Day == 86400000

\* the clock is read at midnight and at noon
ClockStep == Day \div 2

UpperItem == [sourceText |-> <<65, 78>>, translatedText |-> <<88>>,
              format |-> "FULL_TRANSLATION"]

\* items as addToHistory makes them: timestamp is Date.now() of the save
ModalItems ==
    { [sourceText |-> p.sourceText, translatedText |-> p.translatedText,
       format |-> p.format, timestamp |-> k * ClockStep] :
        p \in {SavedItem, UpperItem}, k \in 0..MaxStampSteps }

ModalHistories == UNION { [1..n -> ModalItems] : n \in 0..MaxItems }

DateFilter == {"ALL", "TODAY", "YESTERDAY", "WEEK"}

\* what the user types into the search box
SearchQueries ==
    { <<>>, <<32>>, <<120>>, <<88>>, <<32, 120>>, <<97, 110>> }

\* String.prototype.includes
includes(s, q) ==
    \E i \in 0..(Len(s) - Len(q)) : SubSeq(s, i + 1, i + Len(q)) = q

\* new Date(now.getFullYear(), now.getMonth(), now.getDate()).getTime(),
\* in a time zone without offset and without clock changes
startOfToday(now) == now - (now % Day)

startOfYesterday(now) == startOfToday(now) - Day

startOfWeek(now) == startOfToday(now) - 7 * Day

\* the callback given to history.filter, with its early returns
KeepsItem(item, m) ==
    IF m.formatFilter # "ALL" /\ item.format # m.formatFilter THEN FALSE
    ELSE IF m.dateFilter = "TODAY" /\ item.timestamp < startOfToday(m.now)
    THEN FALSE
    ELSE IF /\ m.dateFilter = "YESTERDAY"
            /\ \/ item.timestamp < startOfYesterday(m.now)
               \/ item.timestamp >= startOfToday(m.now)
    THEN FALSE
    ELSE IF m.dateFilter = "WEEK" /\ item.timestamp < startOfWeek(m.now)
    THEN FALSE
    ELSE IF Trim(m.searchQuery) # <<>>
    THEN LET query == ToLowerCase(m.searchQuery)
             inSource == includes(ToLowerCase(item.sourceText), query)
             inTranslated == includes(ToLowerCase(item.translatedText), query)
         IN  inSource \/ inTranslated
    ELSE TRUE

filteredHistory(m) == SelectSeq(m.history, LAMBDA item : KeepsItem(item, m))

\* a render after a change of history, formatFilter, dateFilter or
\* searchQuery: useMemo computes the list anew
Render(m) == [m EXCEPT !.filteredHistory = filteredHistory(m)]

\* the modal of a session that has a history, as first shown
InitModal ==
    /\ inputText = <<97, 110, 32, 97, 110>>
    /\ format = "FULL_TRANSLATION"
    /\ storage = [input |-> inputText, format |-> format]
    /\ modelTier = "FAST"
    /\ detectedLang = "none"
    /\ seen = {}
    /\ text = inputText
    /\ pc = "call"
    /\ words = <<>>
    /\ idx = 0
    /\ banglaScore = 0
    /\ englishScore = 0
    /\ ratio = <<>>
    /\ result = "none"
    /\ status = "IDLE"
    /\ outputText = <<>>
    /\ history = {}
    /\ store = {}
    /\ loadHistory = "done"
    /\ streams = <<>>
    /\ requests = {}
    /\ loadingMessageIndex = 0
    /\ legacyHistory = NoLegacyHistory
    /\ legacyIndex = 0
    /\ \E h \in ModalHistories, k \in 0..MaxClockSteps :
          /\ \A j \in 1..Len(h) : h[j].timestamp <= k * ClockStep
          /\ modal = [history |-> h, formatFilter |-> "ALL",
                      dateFilter |-> "ALL", searchQuery |-> <<>>,
                      now |-> k * ClockStep, filteredHistory |-> h]

\* the format select: a state that does not change causes no render
setFormatFilter(f) ==
    /\ pc = "idle"
    /\ modal' = IF f = modal.formatFilter THEN modal
                ELSE Render([modal EXCEPT !.formatFilter = f])
    /\ UNCHANGED detVars
    /\ UNCHANGED <<inputText, detectedLang, format, modelTier, storage, seen>>
    /\ UNCHANGED <<status, outputText, history, store, loadHistory>>
    /\ UNCHANGED <<streams, requests, loadingMessageIndex>>
    /\ UNCHANGED <<legacyHistory, legacyIndex>>

\* the date select
setDateFilter(d) ==
    /\ pc = "idle"
    /\ modal' = IF d = modal.dateFilter THEN modal
                ELSE Render([modal EXCEPT !.dateFilter = d])
    /\ UNCHANGED detVars
    /\ UNCHANGED <<inputText, detectedLang, format, modelTier, storage, seen>>
    /\ UNCHANGED <<status, outputText, history, store, loadHistory>>
    /\ UNCHANGED <<streams, requests, loadingMessageIndex>>
    /\ UNCHANGED <<legacyHistory, legacyIndex>>

\* the search box
setSearchQuery(q) ==
    /\ pc = "idle"
    /\ modal' = IF q = modal.searchQuery THEN modal
                ELSE Render([modal EXCEPT !.searchQuery = q])
    /\ UNCHANGED detVars
    /\ UNCHANGED <<inputText, detectedLang, format, modelTier, storage, seen>>
    /\ UNCHANGED <<status, outputText, history, store, loadHistory>>
    /\ UNCHANGED <<streams, requests, loadingMessageIndex>>
    /\ UNCHANGED <<legacyHistory, legacyIndex>>

\* time goes by: new Date() is not among the dependencies of the useMemo,
\* so the list is kept as it was computed
TimePasses ==
    /\ pc = "idle"
    /\ modal.now < MaxClockSteps * ClockStep
    /\ modal' = [modal EXCEPT !.now = @ + ClockStep]
    /\ UNCHANGED detVars
    /\ UNCHANGED <<inputText, detectedLang, format, modelTier, storage, seen>>
    /\ UNCHANGED <<status, outputText, history, store, loadHistory>>
    /\ UNCHANGED <<streams, requests, loadingMessageIndex>>
    /\ UNCHANGED <<legacyHistory, legacyIndex>>

NextModal ==
    \/ Enter
    \/ ForEachWord
    \/ Decide
    \/ MemoReturn
    \/ \E f \in TranslationFormat \cup {"ALL"} : setFormatFilter(f)
    \/ \E d \in DateFilter : setDateFilter(d)
    \/ \E q \in SearchQueries : setSearchQuery(q)
    \/ TimePasses

SpecModal == InitModal /\ [][NextModal]_vars

(***************************************************************************)
(* Properties.                                                             *)
(***************************************************************************)
\* how many code units of t lie in lo..hi
NumBetween(t, lo, hi) ==
    Cardinality({i \in 1..Len(t) : t[i] >= lo /\ t[i] <= hi})

\* characters of the Bangla block, and ASCII letters, in the whole text
BanglaChars == NumBetween(text, 2432, 2559)
LatinChars == NumBetween(text, 97, 122) + NumBetween(text, 65, 90)

\* length of t without its leading and trailing white space
TrimmedLen(t) ==
    LET solid == {i \in 1..Len(t) : t[i] \notin WhiteSpace}
    IN  IF solid = {} THEN 0
        ELSE (CHOOSE i \in solid : \A j \in solid : j <= i)
             - (CHOOSE i \in solid : \A j \in solid : i <= j) + 1

\* the text is rejected before any analysis
TooShort == text = Null \/ TrimmedLen(text) < 2

\* the call has returned after scoring every token
Scored == pc = "done" /\ ~TooShort

Larger == IF banglaScore > englishScore THEN banglaScore ELSE englishScore
Smaller == IF banglaScore > englishScore THEN englishScore ELSE banglaScore
SmallerOrOne == IF Smaller = 0 THEN 1 ELSE Smaller

\* dominance ratio below 1.2, in integers
CloseScores == 5 * Larger < 6 * SmallerOrOne

\* the token just scored, inside a step of the loop
WordStep == idx' = idx + 1
StopB(w) == IF w \in banglaStopwords THEN 10 ELSE 0
StopE(w) == IF w \in englishStopwords THEN 10 ELSE 0
BanglaIn(w) == NumBetween(w, 2432, 2559)
LatinIn(w) == NumBetween(w, 97, 122)

\* C1: every call returns, and returns one of BANGLA, ENGLISH, UNKNOWN:
\* a call that has not returned can always take its next step (the first
\* step, or inside the loop the next word or the decision), and a call that
\* has returned holds one of the three values.
C1_Total ==
    /\ pc \in {"call", "loop", "done"}
    /\ pc = "loop" => idx \in 0..Len(words)
    /\ pc = "done" => result \in Language

C1_Witness ==
    /\ pc = "done"
    /\ text # Null
    /\ BanglaChars >= 1
    /\ NumBetween(text, 65, 90) >= 1
    /\ NumBetween(text, 48, 57) >= 1
    /\ result \in Language

\* C2: a null, empty or shorter-than-2-after-trim text is never tokenized
\* or scored and the call returns UNKNOWN.
C2_TrivialUnknown ==
    TooShort =>
        /\ pc \in {"call", "done"}
        /\ words = <<>>
        /\ idx = 0
        /\ banglaScore = 0
        /\ englishScore = 0
        /\ pc = "done" => result = "UNKNOWN"

\* the single-character stopword
C2_Witness == pc = "done" /\ text = <<2451>> /\ result = "UNKNOWN"

\* C3: with tied scores the whole-text character counts decide, and equal
\* counts give UNKNOWN.
C3_TieByChars ==
    (Scored /\ banglaScore = englishScore) =>
        result = IF BanglaChars > LatinChars THEN "BANGLA"
                 ELSE IF BanglaChars < LatinChars THEN "ENGLISH"
                 ELSE "UNKNOWN"

\* tied non-zero scores, decided for English by upper-case letters
C3_Witness ==
    /\ Scored
    /\ banglaScore = englishScore
    /\ banglaScore > 0
    /\ NumBetween(text, 65, 90) > BanglaChars
    /\ NumBetween(text, 97, 122) = 0
    /\ result = "ENGLISH"

\* C4: differing scores with ratio below 1.2 in a text of more than 5
\* tokens: BANGLA if there are strictly more Bangla characters than ASCII
\* letters, ENGLISH otherwise, whichever score is larger.
C4_CloseByChars ==
    (Scored /\ banglaScore # englishScore /\ CloseScores /\ Len(words) > 5) =>
        result = IF BanglaChars > LatinChars THEN "BANGLA" ELSE "ENGLISH"

\* the Bangla score is larger, the character counts are equal: ENGLISH
C4_Witness ==
    /\ Scored
    /\ banglaScore > englishScore
    /\ CloseScores
    /\ Len(words) > 5
    /\ BanglaChars = LatinChars
    /\ result = "ENGLISH"

\* C5: differing scores with ratio at least 1.2, or at most 5 tokens: the
\* larger score decides.
C5_ByScore ==
    (Scored /\ banglaScore # englishScore /\ (~CloseScores \/ Len(words) <= 5)) =>
        result = IF banglaScore > englishScore THEN "BANGLA" ELSE "ENGLISH"

\* 12 against 10 in six tokens, the letters outnumbering the Bangla characters
C5_Witness ==
    /\ Scored
    /\ banglaScore = 12
    /\ englishScore = 10
    /\ Len(words) = 6
    /\ LatinChars > BanglaChars
    /\ result = "BANGLA"

\* C6: one token adds to each score 10 if it is a stopword of that
\* language, and the script bonus on top of it.
C6_StopwordBonus ==
    [][WordStep =>
        LET w == words[idx']
            script == AfterScript(w, [banglaScore |-> 0, englishScore |-> 0])
        IN  /\ banglaScore' = banglaScore + StopB(w) + script.banglaScore
            /\ englishScore' = englishScore + StopE(w) + script.englishScore
            /\ StopB(w) + StopE(w) <= 10]_vars

\* an English then a Bangla stopword scored: 12 each
C6_Witness ==
    /\ pc = "loop"
    /\ idx = 2
    /\ words[1] \in englishStopwords
    /\ words[2] \in banglaStopwords
    /\ banglaScore = 12
    /\ englishScore = 12

\* C7: apart from the stopword bonus, a token of one script adds 2 to the
\* score of that script whatever its length, and a token of neither script
\* adds nothing.
C7_ScriptBonus ==
    [][WordStep =>
        LET w == words[idx']
            db == banglaScore' - banglaScore - StopB(w)
            de == englishScore' - englishScore - StopE(w)
        IN  /\ (BanglaIn(w) > 0 /\ LatinIn(w) = 0) => (db = 2 /\ de = 0)
            /\ (LatinIn(w) > 0 /\ BanglaIn(w) = 0) => (de = 2 /\ db = 0)
            /\ (LatinIn(w) = 0 /\ BanglaIn(w) = 0) => (de = 0 /\ db = 0)]_vars

\* a two-character Bangla word, no stopword, then a digit: 2 against 0
C7_Witness ==
    /\ pc = "loop"
    /\ idx = 2
    /\ BanglaIn(words[1]) = 2
    /\ Len(words[1]) = 2
    /\ words[1] \notin banglaStopwords
    /\ words[2] = <<49>>
    /\ banglaScore = 2
    /\ englishScore = 0

\* C8: a token of both scripts adds 1 to the score of the script with more
\* characters in it, and nothing when they are as many.
C8_MixedToken ==
    [][WordStep =>
        LET w == words[idx']
            db == banglaScore' - banglaScore
            de == englishScore' - englishScore
        IN  (BanglaIn(w) > 0 /\ LatinIn(w) > 0) =>
               /\ BanglaIn(w) > LatinIn(w) => (db = 1 /\ de = 0)
               /\ LatinIn(w) > BanglaIn(w) => (db = 0 /\ de = 1)
               /\ BanglaIn(w) = LatinIn(w) => (db = 0 /\ de = 0)]_vars

\* three Bangla characters and one Latin letter: 1 against 0
C8_Witness ==
    /\ pc = "loop"
    /\ idx = 1
    /\ BanglaIn(words[1]) = 3
    /\ LatinIn(words[1]) = 1
    /\ banglaScore = 1
    /\ englishScore = 0

\* C9: all calls on the same text, whatever happened in between, have
\* returned the same value.
C9_Deterministic ==
    /\ \A p \in seen : \A q \in seen : p[1] = q[1] => p[2] = q[2]
    /\ pc = "done" => \A p \in seen : p[1] = text => p[2] = result

\* a second call on a text returns, after a call on another text and a
\* change of model tier
C9_Witness ==
    /\ pc = "done"
    /\ result = "BANGLA"
    /\ \E p \in seen : p[1] = text
    /\ \E q \in seen : q[1] # text /\ q[2] = "ENGLISH"
    /\ modelTier = "DEEP_EDITORIAL"

\* C10: the ratio is the larger score over the smaller, a smaller score of
\* 0 taken as 1; the divisor is never 0, and ratio < 1.2 is
\* 5 * larger < 6 * max(smaller, 1).
C10_Ratio ==
    (Scored /\ banglaScore # englishScore) =>
        /\ ratio = <<Larger, SmallerOrOne>>
        /\ ratio[2] >= 1
        /\ QuotientLess(ratio, DominanceThreshold) <=> CloseScores

\* 10 against 0: ratio 10
C10_Witness ==
    /\ Scored
    /\ banglaScore = 10
    /\ englishScore = 0
    /\ ratio = <<10, 1>>

\* C11: no translation request is started for an input text whose detection
\* is UNKNOWN, whatever the sequence of typing, translate, retry, clear and
\* history restore.
C11_NoUnknownRequest ==
    \A r \in requests : detectLanguage(r.inputText) # "UNKNOWN"

\* C12: a text of trimmed length at least 2 with a Bangla-block character
\* and no ASCII letter is classified BANGLA, and one with an ASCII letter and
\* no Bangla-block character is classified ENGLISH.
C12_SingleScript ==
    (pc = "done" /\ ~TooShort) =>
        /\ (BanglaChars > 0 /\ LatinChars = 0) => result = "BANGLA"
        /\ (LatinChars > 0 /\ BanglaChars = 0) => result = "ENGLISH"

\* every element of ws is in S
AllIn(ws, S) == \A i \in 1..Len(ws) : ws[i] \in S

\* the three Bangla stopwords and the five English stopwords of the examples
ThreeBanglaStopwords ==
    <<2447, 2476, 2434, 32, 2451, 32, 2453, 2495, 2472, 2509, 2468, 2497>>
FiveEnglishStopwords ==
    <<116, 104, 101, 32, 97, 110, 100, 32, 105, 115, 32, 111, 102, 32, 105, 110>>

\* C13 as stated: a text made only of stopword tokens scores 10 per token
\* for its language and 0 for the other; the three Bangla stopwords give 30
\* against 0 and the five English stopwords give 50 against 0.
C13_TenPerToken ==
    Scored =>
        /\ AllIn(words, banglaStopwords) =>
              (banglaScore = 10 * Len(words) /\ englishScore = 0)
        /\ AllIn(words, englishStopwords) =>
              (englishScore = 10 * Len(words) /\ banglaScore = 0)
        /\ text = ThreeBanglaStopwords => (banglaScore = 30 /\ englishScore = 0)
        /\ text = FiveEnglishStopwords => (englishScore = 50 /\ banglaScore = 0)

\* C13, amended: a text made only of stopword tokens scores 12 per token for
\* its language (10 for the stopword, 2 for its script) and 0 for the other;
\* the three Bangla stopwords give 36 against 0 and the five English
\* stopwords give 60 against 0.
C13_TwelvePerToken ==
    Scored =>
        /\ AllIn(words, banglaStopwords) =>
              (banglaScore = 12 * Len(words) /\ englishScore = 0)
        /\ AllIn(words, englishStopwords) =>
              (englishScore = 12 * Len(words) /\ banglaScore = 0)
        /\ text = ThreeBanglaStopwords => (banglaScore = 36 /\ englishScore = 0)
        /\ text = FiveEnglishStopwords => (englishScore = 60 /\ banglaScore = 0)

\* the five English stopwords have been scored
C13_Witness ==
    /\ Scored
    /\ text = FiveEnglishStopwords
    /\ Len(words) = 5
    /\ AllIn(words, englishStopwords)
    /\ englishScore = 60
    /\ banglaScore = 0
    /\ result = "ENGLISH"

\* C14: a text of trimmed length at least 2 with no Bangla-block character
\* and no ASCII letter ends with scores 0 and 0, whole-text character counts
\* 0 and 0, and the value UNKNOWN from the tied-score branch.
C14_NoLetters ==
    (pc = "done" /\ ~TooShort /\ BanglaChars = 0 /\ LatinChars = 0) =>
        /\ banglaScore = 0
        /\ englishScore = 0
        /\ CountBangla(text) = 0
        /\ CountLatin(text) = 0
        /\ ratio = <<>>
        /\ result = "UNKNOWN"

\* white space put before and after a text: none, a space, a line feed and
\* a no-break space
WhiteStrings == { <<>>, <<32>>, <<10, 160>> }

\* C15: leading and trailing white space never changes the result: for the
\* text s of a call and white space w1, w2, detectLanguage(w1 + s + w2) is
\* the value the call on s returns, and so is detectLanguage(s.trim()).
C15_PaddingIgnored ==
    pc = "done" =>
        /\ \A w1 \in WhiteStrings : \A w2 \in WhiteStrings :
              detectLanguage(w1 \o text \o w2) = result
        /\ detectLanguage(Trim(text)) = result

\* a call on a text that starts and ends with white space has returned a
\* language
C15_Witness ==
    /\ pc = "done"
    /\ Len(text) >= 4
    /\ text[1] \in WhiteSpace
    /\ text[Len(text)] \in WhiteSpace
    /\ Trim(text) # text
    /\ result = "BANGLA"

\* the tokens of t as written: the non-empty pieces between white-space runs
WrittenTokens(t) == SelectSeq(Split(t), NonEmpty)

\* ws with its i-th and j-th elements exchanged
Exchange(ws, i, j) == [ws EXCEPT ![i] = ws[j], ![j] = ws[i]]

\* the elements of ws with sep between them
RECURSIVE JoinWith(_, _)
JoinWith(ws, sep) ==
    IF ws = <<>> THEN <<>>
    ELSE IF Len(ws) = 1 THEN ws[1]
    ELSE ws[1] \o sep \o JoinWith(Tail(ws), sep)

\* white-space runs between tokens: a space; a line feed, a space and a tab
Separators == { <<32>>, <<10, 32, 9>> }

\* C16: the scores and the result do not depend on the order of the tokens
\* or on the white space between them: the text of a call, with any two of
\* its tokens exchanged and any separator, has the scores and result of the
\* call.  Every order of the tokens is reached by such exchanges.
C16_OrderIgnored ==
    pc = "done" =>
        LET ws == WrittenTokens(text)
        IN  \A i \in 1..Len(ws) : \A j \in 1..Len(ws) : \A sep \in Separators :
               LET other == JoinWith(Exchange(ws, i, j), sep)
               IN  /\ detectLanguage(other) = result
                   /\ ~TooShort =>
                         /\ Scores(other).banglaScore = banglaScore
                         /\ Scores(other).englishScore = englishScore

\* a call on three tokens, the first two different, both scores above 0
C16_Witness ==
    /\ pc = "done"
    /\ Len(words) = 3
    /\ words[1] # words[2]
    /\ banglaScore > 0
    /\ englishScore > banglaScore
    /\ result = "ENGLISH"

\* C17: every translation request that is started names as source the
\* detected language of the text sent and as target the other language, so
\* its direction is BANGLA to ENGLISH or ENGLISH to BANGLA.
C17_Direction ==
    \A r \in requests :
        /\ r.sourceLang = detectLanguage(r.inputText)
        /\ <<r.sourceLang, r.targetLang>> \in
              { <<"BANGLA", "ENGLISH">>, <<"ENGLISH", "BANGLA">> }

\* C18: the two stopword sets are disjoint, no token receives both stopword
\* bonuses, and no step of the loop increases both scores.
C18_OneScorePerToken ==
    [][ /\ banglaStopwords \cap englishStopwords = {}
        /\ WordStep =>
              LET w == words[idx + 1]
              IN  /\ ~(w \in banglaStopwords /\ w \in englishStopwords)
                  /\ banglaScore' >= banglaScore
                  /\ englishScore' >= englishScore
                  /\ banglaScore' = banglaScore \/ englishScore' = englishScore
      ]_vars

\* an English and a Bangla stopword have been scored, 12 each
C18_Witness ==
    /\ pc = "loop"
    /\ idx = 2
    /\ words[1] \in englishStopwords
    /\ words[2] \in banglaStopwords
    /\ englishScore = 12
    /\ banglaScore = 12

\* C19: a call has no side effects and depends on its input alone: no step
\* of a call changes the input, the output, the status, the history, the
\* settings, the stored draft or the calls of the service, whatever ran
\* before it, and the value it returns is the value of the function on its
\* own argument.
C19_NoSideEffects ==
    [][ /\ pc \in {"call", "loop"} =>
              /\ UNCHANGED <<inputText, outputText, status, history, store>>
              /\ UNCHANGED <<format, modelTier, storage, detectedLang>>
              /\ UNCHANGED <<loadHistory, streams, requests, seen, text>>
        /\ (pc \in {"call", "loop"} /\ pc' = "done") =>
              result' = detectLanguage(text)
      ]_vars

\* a call has returned while a translation is streaming, with output shown
\* and an item in the history, after an earlier call on another text
C19_Witness ==
    /\ pc = "done"
    /\ result = "UNKNOWN"
    /\ text # <<>>
    /\ status = "STREAMING"
    /\ outputText # <<>>
    /\ history # {}
    /\ \E p \in seen : p[1] # text /\ p[2] = "ENGLISH"

\* some token of the call is a stopword
HasStopword ==
    \E i \in 1..Len(words) :
        words[i] \in banglaStopwords \/ words[i] \in englishStopwords

\* C20 as stated: a text of 6 or more tokens with differing scores and a
\* ratio below 1.2 is classified BANGLA or ENGLISH, and the language it gets
\* is the script with more raw characters in the whole text.
C20_MoreCharacters ==
    (Scored /\ Len(words) >= 6 /\ banglaScore # englishScore /\ CloseScores) =>
        \/ result = "BANGLA" /\ BanglaChars > LatinChars
        \/ result = "ENGLISH" /\ LatinChars > BanglaChars

\* C20, amended: a text with a stopword scores at least 12 on one side, so
\* never 11 against 10; a text of 6 or more tokens with a stopword and close
\* scores (such as 16 against 14) is BANGLA when the whole text has strictly
\* more Bangla-block characters than ASCII letters and ENGLISH otherwise,
\* never UNKNOWN.
C20_CloseWithStopword ==
    (Scored /\ HasStopword) =>
        /\ Larger >= 12
        /\ (Len(words) >= 6 /\ banglaScore # englishScore /\ CloseScores) =>
              /\ result # "UNKNOWN"
              /\ result = "BANGLA" <=> BanglaChars > LatinChars
              /\ result = "ENGLISH" <=> BanglaChars <= LatinChars

\* six tokens, one stopword of each language, 16 against 14, fewer Latin
\* letters than Bangla characters: BANGLA although the English score leads
C20_Witness ==
    /\ Scored
    /\ Len(words) = 6
    /\ Cardinality({i \in 1..6 : words[i] \in englishStopwords}) = 1
    /\ Cardinality({i \in 1..6 : words[i] \in banglaStopwords}) = 1
    /\ englishScore = 16
    /\ banglaScore = 14
    /\ BanglaChars > LatinChars
    /\ result = "BANGLA"

\* t with the case of its i-th code unit changed when that is an ASCII letter
FlipCase(t, i) ==
    [t EXCEPT ![i] = IF @ >= 97 /\ @ <= 122 THEN @ - 32
                     ELSE IF @ >= 65 /\ @ <= 90 THEN @ + 32
                     ELSE @]

\* t with every ASCII letter in upper case
UpperAscii(t) == [i \in 1..Len(t) |-> IF t[i] >= 97 /\ t[i] <= 122 THEN t[i] - 32 ELSE t[i]]

\* C21: the case of ASCII letters changes neither the scores nor the
\* result: the text of a call with the case of any one ASCII letter changed,
\* or with every ASCII letter in upper case, has the scores and result of
\* the call.
C21_CaseIgnored ==
    pc = "done" =>
        \A other \in {FlipCase(text, i) : i \in 1..Len(text)} \cup {UpperAscii(text)} :
            /\ detectLanguage(other) = result
            /\ ~TooShort =>
                  /\ Scores(other).banglaScore = banglaScore
                  /\ Scores(other).englishScore = englishScore

\* "An" written with a capital has earned the stopword and script bonuses
C21_Witness ==
    /\ pc = "done"
    /\ text = <<65, 110>>
    /\ englishScore = 12
    /\ banglaScore = 0
    /\ result = "ENGLISH"

\* C28: a text of trimmed length at least 2 gets UNKNOWN only with equal
\* scores and equal whole-text counts of Bangla-block characters and ASCII
\* letters; such a text always has tokens, all of them scored, so the
\* empty-token-list return never decides its result.
C28_UnknownOnlyOnTies ==
    (pc = "done" /\ ~TooShort) =>
        /\ words # <<>>
        /\ idx = Len(words)
        /\ result = "UNKNOWN" =>
              /\ banglaScore = englishScore
              /\ CountBangla(text) = CountLatin(text)

\* UNKNOWN from equal scores above 0 and equal counts above 0
C28_Witness ==
    /\ pc = "done"
    /\ ~TooShort
    /\ result = "UNKNOWN"
    /\ banglaScore = englishScore
    /\ banglaScore >= 12
    /\ CountBangla(text) = CountLatin(text)
    /\ CountLatin(text) > 0

\* this step starts a translation
StartStep == Len(streams') = Len(streams) + 1

\* this step delivers a chunk to the i-th running translation
ChunkStep(i) ==
    /\ Len(streams') = Len(streams)
    /\ i \in 1..Len(streams)
    /\ streams'[i] # streams[i]

\* this step ends the i-th running translation with success
SuccessStep(i) ==
    /\ i \in 1..Len(streams)
    /\ streams' = Remove(streams, i)
    /\ status' = "SUCCESS"

\* C22: outputText is emptied when a translation starts; after each chunk
\* it is the concatenation of the chunks that translation has received so
\* far; when the translation ends with SUCCESS it is the concatenation of
\* all its chunks.
C22_OutputFollowsStream ==
    [][ /\ StartStep => outputText' = <<>>
        /\ \A i \in 1..MaxStreams :
              ChunkStep(i) =>
                 /\ \E chunk \in Chunks :
                       streams'[i].currentOutput = streams[i].currentOutput \o chunk
                 /\ outputText' = streams'[i].currentOutput
        /\ \A i \in 1..MaxStreams :
              SuccessStep(i) => outputText' = streams[i].currentOutput
      ]_vars

\* C23: at most one translation stream is running at any time.
C23_OneStream == Len(streams) <= 1

\* Clear has been pressed while a translation was running, and nothing has
\* been typed, started or restored since: only Clear sets the status IDLE
\* while a translation runs
ClearedInFlight ==
    /\ inputText = <<>>
    /\ outputText = <<>>
    /\ status = "IDLE"
    /\ streams # <<>>

\* this step is a chunk, the completion or the failure of a running
\* translation
StreamStep == streams' # streams /\ Len(streams') <= Len(streams)

\* C24: after Clear the input and the output stay empty and the status
\* stays IDLE until the next user action: chunks and the end of a
\* translation that was running when Clear was pressed change neither the
\* output, nor the status, nor the history.
C24_ClearHolds ==
    [][ (ClearedInFlight /\ StreamStep) =>
           /\ inputText' = <<>>
           /\ outputText' = <<>>
           /\ status' = "IDLE"
           /\ history' = history
           /\ store' = store
      ]_vars

\* C26: a translation whose call or stream throws, before or after chunks,
\* ends with the status ERROR, not SUCCESS, saves no history item, and is
\* over: it leaves the running translations.
C26_FailureIsError ==
    [][ \A i \in 1..Len(streams) :
           StreamFail(i) =>
              /\ status' = "ERROR"
              /\ status' # "SUCCESS"
              /\ history' = history
              /\ store' = store
              /\ Len(streams') = Len(streams) - 1
      ]_vars

\* a translation has failed after a chunk: ERROR, the chunk still shown,
\* nothing saved
C26_Witness ==
    /\ status = "ERROR"
    /\ streams = <<>>
    /\ requests # {}
    /\ outputText = <<120>>
    /\ history = {}
    /\ store = {}
    /\ loadHistory = "done"

MessagesOf(tier) ==
    IF tier = "DEEP_EDITORIAL" THEN DeepMessagesLength ELSE FastMessagesLength

\* C25: while the status is STREAMING, loadingMessageIndex is an index of
\* the message list of the selected tier: below 7 for DEEP_EDITORIAL, below
\* 3 for FAST.
C25_ValidIndex ==
    status = "STREAMING" =>
        /\ loadingMessageIndex >= 0
        /\ loadingMessageIndex < MessagesOf(modelTier)

\* a step of addToHistory: a stream has ended
AddToHistoryStep == Len(streams') < Len(streams)

\* C29: the legacy key is removed only once every legacy item is in the
\* store, the items having been saved one at a time in list order; when a
\* save fails the key is kept, no further legacy item is saved and the mount
\* effect never sets the history.
C29_MigrateThenRemove ==
    [][ /\ (legacyHistory.stored /\ ~legacyHistory'.stored) =>
              /\ legacyIndex' = Len(legacyHistory.items)
              /\ \A j \in 1..Len(legacyHistory.items) :
                     legacyHistory.items[j] \in store'
        /\ legacyIndex' # legacyIndex =>
              /\ legacyIndex' = legacyIndex + 1
              /\ store' = store \cup {legacyHistory.items[legacyIndex']}
        /\ (store' # store /\ legacyIndex' = legacyIndex) => AddToHistoryStep
        /\ (loadHistory' = "failed" /\ loadHistory # "failed") =>
              /\ legacyHistory.stored
              /\ legacyIndex < Len(legacyHistory.items)
              /\ UNCHANGED <<legacyHistory, legacyIndex, store, history>>
        /\ loadHistory = "failed" =>
              /\ UNCHANGED <<loadHistory, legacyHistory, legacyIndex>>
              /\ (store' # store \/ history' # history) => AddToHistoryStep
        /\ (history' # history /\ ~AddToHistoryStep) =>
              /\ ~legacyHistory'.stored
              /\ loadHistory' = "done"
      ]_vars

\* the second of two legacy items could not be saved
C29_Witness ==
    /\ loadHistory = "failed"
    /\ legacyHistory = [stored |-> TRUE, items |-> <<LegacyItem, SavedItem>>]
    /\ legacyIndex = 1
    /\ store = {LegacyItem}
    /\ history = {}

PassesFormat(item, m) == m.formatFilter = "ALL" \/ item.format = m.formatFilter

\* the window of a date filter at the instant now
InWindow(d, stamp, now) ==
    CASE d = "ALL" -> TRUE
      [] d = "TODAY" -> stamp >= startOfToday(now)
      [] d = "YESTERDAY" ->
           stamp >= startOfYesterday(now) /\ stamp < startOfToday(now)
      [] d = "WEEK" -> stamp >= startOfWeek(now)

PassesSearch(item, m) ==
    \/ Trim(m.searchQuery) = <<>>
    \/ includes(ToLowerCase(item.sourceText), ToLowerCase(m.searchQuery))
    \/ includes(ToLowerCase(item.translatedText), ToLowerCase(m.searchQuery))

\* the list is the history filtered as of the time it was computed
C30_AsComputed ==
    \E k \in 0..MaxClockSteps :
        /\ k * ClockStep <= modal.now
        /\ modal.filteredHistory =
             SelectSeq(modal.history,
                       LAMBDA item :
                           /\ PassesFormat(item, modal)
                           /\ InWindow(modal.dateFilter, item.timestamp,
                                       k * ClockStep)
                           /\ PassesSearch(item, modal))

\* with both filters ALL and a blank query the list is the whole history
C30_NoFilter ==
    (/\ modal.formatFilter = "ALL"
     /\ modal.dateFilter = "ALL"
     /\ Trim(modal.searchQuery) = <<>>) =>
        modal.filteredHistory = modal.history

\* no item is in the TODAY window and in the YESTERDAY window
C30_WindowsDisjoint ==
    \A j \in 1..Len(modal.history) :
        ~ (/\ InWindow("TODAY", modal.history[j].timestamp, modal.now)
           /\ InWindow("YESTERDAY", modal.history[j].timestamp, modal.now))

\* C30: the list shown is the history items, in history order, that pass
\* the format filter and the date filter and the search filter; with both
\* filters ALL and a blank query it is the whole history; the TODAY and the
\* YESTERDAY window share no item.
C30_ShownList ==
    /\ modal.filteredHistory =
         SelectSeq(modal.history,
                   LAMBDA item :
                       /\ PassesFormat(item, modal)
                       /\ InWindow(modal.dateFilter, item.timestamp, modal.now)
                       /\ PassesSearch(item, modal))
    /\ C30_NoFilter
    /\ C30_WindowsDisjoint

==========================================================================
